---------------------------- MODULE Spec2Model ----------------------------
(***************************************************************************)
(* Model of src/src/calculations.ts: the simulation engine of the asset    *)
(* risk dashboard (generateDashboardCurves and the generators it calls).   *)
(*                                                                         *)
(* Numbers.  A JavaScript number is modelled as an exact rational <<n, d>> *)
(* in lowest terms with d > 0, or as one of the three non-finite values    *)
(* NaN = <<0,0>>, +Infinity = <<1,0>>, -Infinity = <<-1,0>>.  Division by  *)
(* zero, comparisons with NaN and the remainder operator follow IEEE 754   *)
(* as JavaScript does.  The rounding of the basic operations is not        *)
(* modelled (they are exact); the transcendental functions Math.exp and    *)
(* Math.cos are tabulated, interpolated linearly and rounded down to 1/1000.*)
(* A draw of the generator is the top DrawBits bits of its 32-bit output.  *)
(***************************************************************************)
EXTENDS Integers, Sequences, FiniteSets, TLC

(***************************************************************************)
(* Bounds of the model.                                                    *)
(***************************************************************************)
MaxLifespan == 2
MaxCycle == 2
MaxPoints == 11
DrawBits == 4
MaxSpin == 2
MaxCalls == 3

(***************************************************************************)
(* Rational arithmetic with IEEE non-finite values.                        *)
(***************************************************************************)
Abs(n) == IF n < 0 THEN -n ELSE n

Sgn(n) == IF n < 0 THEN -1 ELSE IF n > 0 THEN 1 ELSE 0

RECURSIVE GCD(_, _)
GCD(a, b) == IF b = 0 THEN a ELSE GCD(b, a % b)

LCM(a, b) == (a \div GCD(a, b)) * b

Norm(n, d) ==
  LET g == GCD(Abs(n), d)
  IN  <<Sgn(n) * (Abs(n) \div g), d \div g>>

NaN == <<0, 0>>

Inf(s) == <<s, 0>>

R(n) == <<n, 1>>

Q(n, d) == Norm(n, d)

IsNum(a) == a[2] # 0

IsNaN(a) == a = NaN

RNeg(a) == <<-a[1], a[2]>>

RAdd(a, b) ==
  IF IsNum(a) /\ IsNum(b)
  THEN LET l == LCM(a[2], b[2])
       IN  Norm(a[1] * (l \div a[2]) + b[1] * (l \div b[2]), l)
  ELSE IF IsNaN(a) \/ IsNaN(b) THEN NaN
  ELSE IF IsNum(a) THEN b
  ELSE IF IsNum(b) \/ a = b THEN a
  ELSE NaN

RSub(a, b) == RAdd(a, RNeg(b))

RMul(a, b) ==
  IF IsNum(a) /\ IsNum(b)
  THEN LET g1 == GCD(Abs(a[1]), b[2])
           g2 == GCD(Abs(b[1]), a[2])
       IN  Norm((a[1] \div g1) * (b[1] \div g2), (a[2] \div g2) * (b[2] \div g1))
  ELSE IF IsNaN(a) \/ IsNaN(b) \/ a[1] = 0 \/ b[1] = 0 THEN NaN
  ELSE Inf(Sgn(a[1]) * Sgn(b[1]))

RDiv(a, b) ==
  IF IsNum(a) /\ IsNum(b)
  THEN IF b[1] = 0
       THEN (IF a[1] = 0 THEN NaN ELSE Inf(Sgn(a[1])))
       ELSE RMul(a, <<Sgn(b[1]) * b[2], Abs(b[1])>>)
  ELSE IF IsNaN(a) \/ IsNaN(b) THEN NaN
  ELSE IF IsNum(a) THEN R(0)
  ELSE IF IsNum(b) THEN Inf(a[1] * (IF b[1] < 0 THEN -1 ELSE 1))
  ELSE NaN

\* a < b; false when either is NaN
RLt(a, b) ==
  /\ ~IsNaN(a)
  /\ ~IsNaN(b)
  /\ IF IsNum(a) /\ IsNum(b)
     THEN LET l == LCM(a[2], b[2])
          IN  a[1] * (l \div a[2]) < b[1] * (l \div b[2])
     ELSE (IF IsNum(a) THEN 0 ELSE a[1]) < (IF IsNum(b) THEN 0 ELSE b[1])

RGt(a, b) == RLt(b, a)

\* a === b for numbers: NaN equals nothing
REq(a, b) == ~IsNaN(a) /\ a = b

RLe(a, b) == RLt(a, b) \/ REq(a, b)

RGe(a, b) == RLe(b, a)

\* Math.floor
RFloor(a) == IF IsNum(a) THEN R(a[1] \div a[2]) ELSE a

\* Math.trunc, used by the remainder
RTrunc(a) == IF IsNum(a) THEN R(Sgn(a[1]) * (Abs(a[1]) \div a[2])) ELSE a

\* a % b of JavaScript: the sign of the result is the sign of a
RMod(a, b) ==
  IF IsNaN(a) \/ IsNaN(b) \/ ~IsNum(a) THEN NaN
  ELSE IF ~IsNum(b) THEN a
  ELSE IF b[1] = 0 THEN NaN
  ELSE RSub(a, RMul(b, RTrunc(RDiv(a, b))))

\* Math.min, Math.max
RMin(a, b) == IF IsNaN(a) \/ IsNaN(b) THEN NaN ELSE IF RLt(b, a) THEN b ELSE a

RMax(a, b) == IF IsNaN(a) \/ IsNaN(b) THEN NaN ELSE IF RGt(b, a) THEN b ELSE a

\* a || b of JavaScript on numbers: b when a is 0 or NaN
ROr(a, b) == IF IsNaN(a) \/ a = R(0) THEN b ELSE a

(***************************************************************************)
(* 32-bit unsigned words as <<high 16 bits, low 16 bits>>.                 *)
(***************************************************************************)
W16 == 65536

RECURSIVE Pow2(_)
Pow2(k) == IF k = 0 THEN 1 ELSE 2 * Pow2(k - 1)

RECURSIVE BitXor(_, _, _)
BitXor(a, b, n) ==
  IF n = 0 THEN 0
  ELSE ((a + b) % 2) + 2 * BitXor(a \div 2, b \div 2, n - 1)

RECURSIVE BitOr(_, _, _)
BitOr(a, b, n) ==
  IF n = 0 THEN 0
  ELSE (IF a % 2 = 1 \/ b % 2 = 1 THEN 1 ELSE 0) + 2 * BitOr(a \div 2, b \div 2, n - 1)

Xor32(a, b) == <<BitXor(a[1], b[1], 16), BitXor(a[2], b[2], 16)>>

Or32(a, b) == <<BitOr(a[1], b[1], 16), BitOr(a[2], b[2], 16)>>

\* a >>> k for 0 < k < 16
Shr32(a, k) ==
  <<a[1] \div Pow2(k), (a[2] \div Pow2(k)) + (a[1] % Pow2(k)) * Pow2(16 - k)>>

Add32(a, b) ==
  LET lo == a[2] + b[2]
  IN  <<(a[1] + b[1] + (lo \div W16)) % W16, lo % W16>>

\* the low 16 bits of p * q
MulLo16(p, q) == ((p % 256) * q + (((p \div 256) * q) % 256) * 256) % W16

\* bits 16..31 of p * q
MulHi16(p, q) == ((((p % 256) * q) \div 256) + (p \div 256) * q) \div 256

\* Math.imul: the low 32 bits of the product
Imul(a, b) ==
  <<(MulHi16(a[2], b[2]) + MulLo16(a[1], b[2]) + MulLo16(a[2], b[1])) % W16,
    MulLo16(a[2], b[2])>>


(***************************************************************************)
(* State.                                                                  *)
(***************************************************************************)
VARIABLES
  pc,               \* where the running call is: "idle", "costInit", "cost",
                    \* "risk", "returned", "threw"
  params,           \* the DashboardParams of the running call
  rng,              \* the variable `seed` captured by the closure of mulberry32
  failTimes,        \* generateCostCurves: failTimes
  failCosts,        \* generateCostCurves: failCosts
  interventions,    \* generateCostCurves: interventions
  riskFailTimes,    \* generateRiskCurves: failTimes (sorted)
  i,                \* the sample loop's index
  c,                \* generateCostCurves: the cycle loop's counter while it spins
  cost,             \* generateCostCurves: result / costPoints
  risk,             \* generateRiskCurves: result / riskPoints
  currentLof,       \* generateRiskCurves: currentLof
  lastFailureTime,  \* generateRiskCurves: lastFailureTime
  failureIndex,     \* generateRiskCurves: failureIndex
  result,           \* the Curves record returned, or the error thrown
  calls,            \* how many calls have been made
  first             \* history: the result of the first call with each parameter record

vars ==
  <<pc, params, rng, failTimes, failCosts, interventions, riskFailTimes, i, c,
    cost, risk, currentLof, lastFailureTime, failureIndex, result, calls, first>>

(***************************************************************************)
(* The deterministic generator (seed 42).                                  *)
(***************************************************************************)
\* mulberry32(seed): a new closure whose captured variable is the seed
Mulberry32Shared(seed) == rng

mulberry32(seed) == <<0, seed>>

\* seed += 0x6d2b79f5 (the mixing only reads the low 32 bits of the sum)
RngAdvance(s) == Add32(s, <<27947, 31221>>)

\* the 32-bit word the closure computes from the advanced seed
RngWord(s) ==
  LET t1 == Imul(Xor32(s, Shr32(s, 15)), Or32(s, <<0, 1>>))
      t2 == Xor32(t1, Add32(t1, Imul(Xor32(t1, Shr32(t1, 7)), Or32(t1, <<0, 61>>))))
  IN  Xor32(t2, Shr32(t2, 14))

\* word / 4294967296, kept to its top DrawBits bits
RngValue(s) == Q(RngWord(s)[1] \div Pow2(16 - DrawBits), Pow2(DrawBits))

(***************************************************************************)
(* logisticCurve and calculateLof.                                         *)
(***************************************************************************)
\* 1000 / (1 + exp(-z)) at z = 0..8, to the nearest integer
LogisticTable == <<500, 731, 881, 953, 982, 993, 998, 999, 1000>>

LogisticAt(k) ==
  IF k >= 8 THEN 1000
  ELSE IF k <= -8 THEN 0
  ELSE IF k >= 0 THEN LogisticTable[k + 1]
  ELSE 1000 - LogisticTable[1 - k]

\* 1 / (1 + Math.exp(-z))
Logistic(z) ==
  IF IsNaN(z) THEN NaN
  ELSE IF ~IsNum(z) THEN (IF z[1] > 0 THEN R(1) ELSE R(0))
  ELSE LET k  == z[1] \div z[2]
           fn == z[1] - k * z[2]
           lo == LogisticAt(k)
           hi == LogisticAt(k + 1)
       IN  Q(lo + ((fn * (hi - lo)) \div z[2]), 1000)

logisticCurve(x, alpha, midpoint) == Logistic(RMul(alpha, RSub(x, midpoint)))

calculateLof(ageNormalized, lofAlpha, minLof) ==
  LET f == logisticCurve(ageNormalized, lofAlpha, Q(7, 10))
  IN  RAdd(minLof, RMul(RSub(R(1), minLof), f))

(***************************************************************************)
(* Math.cos(2 * Math.PI * p).                                              *)
(***************************************************************************)
\* 1000 * cos at 0, 15, ..., 90 degrees, to the nearest integer
CosTable == <<1000, 966, 866, 707, 500, 259, 0>>

\* 1000 * cos(k * 15 degrees) for k in 0..24
CosAt(k) ==
  IF k <= 6 THEN CosTable[k + 1]
  ELSE IF k <= 12 THEN -CosTable[13 - k]
  ELSE IF k <= 18 THEN -CosTable[k - 11]
  ELSE CosTable[25 - k]

Cos2Pi(p) ==
  IF ~IsNum(p) THEN NaN
  ELSE LET n  == Abs(p[1]) % p[2]        \* the fraction of a turn, over p[2]
           k  == (24 * n) \div p[2]
           fn == 24 * n - k * p[2]
           lo == CosAt(k)
           hi == CosAt(k + 1)
       IN  Q(lo + ((fn * (hi - lo)) \div p[2]), 1000)

(***************************************************************************)
(* The parameter records the calls are made with.                          *)
(***************************************************************************)
Lifespans == {R(n) : n \in -1..MaxLifespan}

CycleLengths == {R(n) : n \in -1..MaxCycle}

PointCounts == (0..3) \cup {MaxPoints}

ReplacementCosts == {R(1), R(2)}

RiskAlphas == {R(1), R(6)}

MinLofs == {Q(1, 20), Q(19, 20)}

Thresholds == {Q(81, 1000), Q(2, 5)}

DashboardParams ==
  [lifespanYears : Lifespans, replacementCost : ReplacementCosts,
   riskAlpha : RiskAlphas, minLof : MinLofs, cycleLengthYears : CycleLengths,
   threshold : Thresholds, points : PointCounts]

StrategyKey == {"noFix", "fixInPlan", "fixOnFail", "fixOnRisk"}

CurvePoint(t, x, noFix, fixInPlan, fixOnFail, fixOnRisk) ==
  [t |-> t, x |-> x, noFix |-> noFix, fixInPlan |-> fixInPlan,
   fixOnFail |-> fixOnFail, fixOnRisk |-> fixOnRisk]

(***************************************************************************)
(* The sample loops' header: x = i / (points - 1).                         *)
(***************************************************************************)
SampleXOverPoints(k, points) == RDiv(R(k), R(points))

SampleX(k, points) == RDiv(R(k), R(points - 1))

(***************************************************************************)
(* The failure schedule.                                                   *)
(***************************************************************************)
\* Math.max(3, Math.floor(2 + 3 * Math.pow(1, 2)))
maxFailures == IF 3 > 2 + 3 * (1 * 1) THEN 3 ELSE 2 + 3 * (1 * 1)

\* failurePosition of failure i (0-based) for the draw u
FailurePositionWide(k, u) ==
  LET basePosition == RAdd(Q(3, 10), RMul(RDiv(R(k + 1), R(maxFailures)), Q(7, 10)))
      randomOffset == RSub(RMul(u, Q(4, 10)), Q(2, 10))
  IN  RMin(R(1), RMax(Q(3, 10), RAdd(basePosition, randomOffset)))

FailurePosition(k, u) ==
  LET basePosition == RAdd(Q(3, 10), RMul(RDiv(R(k + 1), R(maxFailures)), Q(7, 10)))
      randomOffset == RSub(RMul(u, Q(1, 10)), Q(1, 20))
  IN  RMin(R(1), RMax(Q(3, 10), RAdd(basePosition, randomOffset)))

\* generateCostCurves: two draws a failure, the offset and then the repair fraction
RECURSIVE CostFailures(_, _, _, _, _, _)
CostFailures(k, s, times, costs, lifespan, replacementCost) ==
  IF ~(k < maxFailures)
  THEN [failTimes |-> times, failCosts |-> costs, rng |-> s]
  ELSE LET s1 == RngAdvance(s)
           failureTime == RMul(FailurePosition(k, RngValue(s1)), lifespan)
           s2 == RngAdvance(s1)
           repairFraction == RAdd(Q(3, 10), RMul(RngValue(s2), Q(2, 10)))
       IN  CostFailures(k + 1, s2, Append(times, failureTime),
                        Append(costs, RMul(repairFraction, replacementCost)),
                        lifespan, replacementCost)

\* generateRiskCurves: one draw a failure, the offset
RECURSIVE RiskFailures(_, _, _, _)
RiskFailures(k, s, times, lifespan) ==
  IF ~(k < maxFailures)
  THEN [failTimes |-> times, rng |-> s]
  ELSE LET s1 == RngAdvance(s)
           failureTime == RMul(FailurePosition(k, RngValue(s1)), lifespan)
       IN  RiskFailures(k + 1, s1, Append(times, failureTime), lifespan)

\* Array.prototype.sort((a, b) => a - b): an insertion of v into a sorted sequence
RECURSIVE Insert(_, _)
Insert(sorted, v) ==
  IF sorted = <<>> THEN <<v>>
  ELSE IF RLt(v, Head(sorted)) THEN <<v>> \o sorted
  ELSE <<Head(sorted)>> \o Insert(Tail(sorted), v)

RECURSIVE SortAscending(_)
SortAscending(seq) ==
  IF seq = <<>> THEN <<>>
  ELSE Insert(SortAscending(SubSeq(seq, 1, Len(seq) - 1)), seq[Len(seq)])

\* the schedule of the Fix-on-Risk interventions
N_interventions == 4

Interventions(lifespan) ==
  [k \in 1..N_interventions |->
     RMul(RMin(RAdd(Q(3, 10), RMul(R(k), Q(15, 100))), R(1)), lifespan)]

(***************************************************************************)
(* generateCostCurves: one sample.                                         *)
(***************************************************************************)
\* catastrophicReplacement
CatastrophicLate(t, lifespan, replacementCost) ==
  IF RGt(t, RMul(Q(9, 10), lifespan)) THEN replacementCost ELSE R(0)

CatastrophicReplacement(t, lifespan, replacementCost) ==
  IF RGe(t, RMul(Q(9, 10), lifespan)) THEN replacementCost ELSE R(0)

BaselineNoFix(t, lifespan, replacementCost) ==
  RDiv(RMul(RMul(Q(5, 100), replacementCost), t), lifespan)

\* nCycles
NCycles(lifespan, cycleLength) == RFloor(RDiv(lifespan, cycleLength))

\* for (let c = 1; c <= nCycles; c++) if (t >= c * cycleLength) cycleCost += C_cycle
RECURSIVE CycleCostStrict(_, _, _, _, _)
CycleCostStrict(k, nCycles, t, cycleLength, replacementCost) ==
  IF ~RLe(R(k), nCycles) THEN R(0)
  ELSE RAdd(IF RGt(t, RMul(R(k), cycleLength))
            THEN RMul(Q(15, 100), replacementCost) ELSE R(0),
            CycleCostStrict(k + 1, nCycles, t, cycleLength, replacementCost))

RECURSIVE CycleCost(_, _, _, _, _)
CycleCost(k, nCycles, t, cycleLength, replacementCost) ==
  IF ~RLe(R(k), nCycles) THEN R(0)
  ELSE RAdd(IF RGe(t, RMul(R(k), cycleLength))
            THEN RMul(Q(15, 100), replacementCost) ELSE R(0),
            CycleCost(k + 1, nCycles, t, cycleLength, replacementCost))

\* the sum of costs[j] over the j with t <= times[j]
RECURSIVE CostOfPending(_, _, _, _)
CostOfPending(j, times, costs, t) ==
  IF j > Len(times) THEN R(0)
  ELSE RAdd(IF RLe(t, times[j]) THEN costs[j] ELSE R(0),
            CostOfPending(j + 1, times, costs, t))

\* the sum of costs[j] over the j with t >= times[j]
RECURSIVE CostOfPassed(_, _, _, _)
CostOfPassed(j, times, costs, t) ==
  IF j > Len(times) THEN R(0)
  ELSE RAdd(IF RGe(t, times[j]) THEN costs[j] ELSE R(0),
            CostOfPassed(j + 1, times, costs, t))

CostSampleOf(P, times, costs, ivs, k) ==
  LET lifespan == P.lifespanYears
      rc == P.replacementCost
      x == SampleX(k, P.points)
      t == RMul(x, lifespan)
      cumulativeNoFix ==
        RAdd(BaselineNoFix(t, lifespan, rc), CatastrophicReplacement(t, lifespan, rc))
      baselineFixInPlan == RDiv(RMul(RMul(Q(2, 100), rc), t), lifespan)
      cycleCost == CycleCost(1, NCycles(lifespan, P.cycleLengthYears), t,
                             P.cycleLengthYears, rc)
      baselineFail == RDiv(RMul(RMul(Q(1, 100), rc), t), lifespan)
      emergencyCost == CostOfPassed(1, times, costs, t)
      baselineRisk == RDiv(RMul(RMul(Q(2, 100), rc), t), lifespan)
      riskInterventionCost ==
        CostOfPassed(1, ivs, [j \in 1..Len(ivs) |-> RMul(Q(2, 10), rc)], t)
  IN  CurvePoint(t, x, cumulativeNoFix, RAdd(baselineFixInPlan, cycleCost),
                 RAdd(baselineFail, emergencyCost),
                 RAdd(baselineRisk, riskInterventionCost))

(***************************************************************************)
(* generateRiskCurves: one sample.                                         *)
(***************************************************************************)
\* while (failureIndex < failTimes.length && t > failTimes[failureIndex]) ...
AdvanceOnce(times, t, idx, last, lof, baselineLof) ==
  IF idx < Len(times) /\ RGt(t, times[idx + 1])
  THEN [failureIndex |-> idx + 1, lastFailureTime |-> times[idx + 1],
        lofFixOnFail |-> RMul(baselineLof, R(2))]
  ELSE [failureIndex |-> idx, lastFailureTime |-> last, lofFixOnFail |-> lof]

RECURSIVE AdvanceFailures(_, _, _, _, _, _)
AdvanceFailures(times, t, idx, last, lof, baselineLof) ==
  IF idx < Len(times) /\ RGt(t, times[idx + 1])
  THEN AdvanceFailures(times, t, idx + 1, times[idx + 1], RMul(baselineLof, R(2)),
                       baselineLof)
  ELSE [failureIndex |-> idx, lastFailureTime |-> last, lofFixOnFail |-> lof]

\* the Fix-on-Fail likelihood once the index has been advanced
LofWithoutEquality(adv, times, t, lifespan, riskAlpha, baselineLof) ==
  LET nextFailureTime ==
        IF adv.failureIndex < Len(times) THEN times[adv.failureIndex + 1] ELSE lifespan
      progress ==
        RDiv(RSub(t, adv.lastFailureTime),
             ROr(RSub(nextFailureTime, adv.lastFailureTime), R(1)))
      growth ==
        RAdd(baselineLof,
             RMul(RSub(Q(9, 10), baselineLof),
                  logisticCurve(progress, RMul(R(2), riskAlpha), Q(6, 10))))
  IN  IF RLt(t, nextFailureTime) THEN RMin(growth, Q(999, 1000))
      ELSE adv.lofFixOnFail

LofFixOnFail(adv, times, t, lifespan, riskAlpha, baselineLof) ==
  LET nextFailureTime ==
        IF adv.failureIndex < Len(times) THEN times[adv.failureIndex + 1] ELSE lifespan
      progress ==
        RDiv(RSub(t, adv.lastFailureTime),
             ROr(RSub(nextFailureTime, adv.lastFailureTime), R(1)))
      growth ==
        RAdd(baselineLof,
             RMul(RSub(Q(9, 10), baselineLof),
                  logisticCurve(progress, RMul(R(2), riskAlpha), Q(6, 10))))
  IN  IF RLt(t, nextFailureTime) THEN RMin(growth, Q(999, 1000))
      ELSE IF REq(t, nextFailureTime) THEN R(1)
      ELSE adv.lofFixOnFail

\* the Fix-in-Plan likelihood
LofFixInPlan(t, x, cycleLength, minLof) ==
  LET cyclePosition == RDiv(RMod(t, cycleLength), cycleLength)
      wave == RDiv(RSub(R(1), Cos2Pi(cyclePosition)), R(2))
      peakLof == RAdd(minLof, RMul(RSub(Q(3, 10), minLof), RAdd(R(1), RMul(Q(1, 2), x))))
  IN  RAdd(minLof, RMul(RSub(peakLof, minLof), wave))

\* currentLof += growthRate; if (currentLof >= thresholdLof) currentLof = minLof * 1.5
SawtoothNoReset(current, x, riskAlpha, minLof, thresholdLof) ==
  RAdd(current, RMul(RMul(Q(1, 1000), riskAlpha), RAdd(R(1), RMul(R(2), x))))

Sawtooth(current, x, riskAlpha, minLof, thresholdLof) ==
  LET growthRate == RMul(RMul(Q(1, 1000), riskAlpha), RAdd(R(1), RMul(R(2), x)))
      incremented == RAdd(current, growthRate)
  IN  IF RGe(incremented, thresholdLof) THEN RMul(minLof, Q(3, 2)) ELSE incremented

RiskSampleOf(P, times, k, current, last, idx) ==
  LET lifespan == P.lifespanYears
      cof == P.replacementCost
      x == SampleX(k, P.points)
      t == RMul(x, lifespan)
      lofNoFix == calculateLof(x, P.riskAlpha, P.minLof)
      lofFixInPlan == LofFixInPlan(t, x, P.cycleLengthYears, P.minLof)
      baselineLof == RMul(P.minLof, R(2))
      adv == AdvanceFailures(times, t, idx, last, baselineLof, baselineLof)
      lofFixOnFail == LofFixOnFail(adv, times, t, lifespan, P.riskAlpha, baselineLof)
      lofFixOnRisk == Sawtooth(current, x, P.riskAlpha, P.minLof, P.threshold)
  IN  [point |-> CurvePoint(t, x, RMul(lofNoFix, cof), RMul(lofFixInPlan, cof),
                            RMul(lofFixOnFail, cof), RMul(lofFixOnRisk, cof)),
       currentLof |-> lofFixOnRisk,
       lastFailureTime |-> adv.lastFailureTime,
       failureIndex |-> adv.failureIndex]

(***************************************************************************)
(* Summary metrics.                                                        *)
(***************************************************************************)
\* costPoints[costPoints.length - 1]; undefined when there is no point
calculateTotalCostsFirst(costPoints) ==
  [s \in StrategyKey |-> costPoints[1][s]]

calculateTotalCosts(costPoints) ==
  [s \in StrategyKey |-> costPoints[Len(costPoints)][s]]

RECURSIVE SumOf(_, _, _)
SumOf(points, s, k) ==
  IF k > Len(points) THEN R(0) ELSE RAdd(points[k][s], SumOf(points, s, k + 1))

calculateAverageRisk(riskPoints) ==
  [s \in StrategyKey |-> RDiv(SumOf(riskPoints, s, 1), R(Len(riskPoints)))]

Curves(P, costPoints, riskPoints) ==
  [cost |-> costPoints,
   risk |-> riskPoints,
   totalCosts |-> calculateTotalCosts(costPoints),
   averageRisk |-> calculateAverageRisk(riskPoints),
   thresholdDollar |-> RMul(P.threshold, P.replacementCost)]

(***************************************************************************)
(* The state machine: one call of generateDashboardCurves after another.   *)
(***************************************************************************)
NoParams ==
  [lifespanYears |-> R(0), replacementCost |-> R(0), riskAlpha |-> R(0),
   minLof |-> R(0), cycleLengthYears |-> R(0), threshold |-> R(0), points |-> 0]

Init ==
  /\ pc = "idle"
  /\ params = NoParams
  /\ rng = <<0, 0>>
  /\ failTimes = <<>>
  /\ failCosts = <<>>
  /\ interventions = <<>>
  /\ riskFailTimes = <<>>
  /\ i = 0
  /\ c = 1
  /\ cost = <<>>
  /\ risk = <<>>
  /\ currentLof = R(0)
  /\ lastFailureTime = R(0)
  /\ failureIndex = 0
  /\ result = [kind |-> "none"]
  /\ calls = 0
  /\ first = {}

\* generateDashboardCurves(P) is entered
Enter(P) ==
  /\ pc \in {"idle", "returned", "threw"}
  /\ pc' = "costInit"
  /\ params' = P
  /\ calls' = calls + 1
  /\ failTimes' = <<>>
  /\ failCosts' = <<>>
  /\ interventions' = <<>>
  /\ riskFailTimes' = <<>>
  /\ i' = 0
  /\ c' = 1
  /\ cost' = <<>>
  /\ risk' = <<>>
  /\ currentLof' = R(0)
  /\ lastFailureTime' = R(0)
  /\ failureIndex' = 0
  /\ result' = [kind |-> "none"]
  /\ UNCHANGED <<rng, first>>

\* the one call of a run
Call == calls = 0 /\ \E P \in DashboardParams : Enter(P)

\* generateCostCurves up to its sample loop
CostInit ==
  /\ pc = "costInit"
  /\ LET sched == CostFailures(0, mulberry32(42), <<>>, <<>>, params.lifespanYears,
                               params.replacementCost)
     IN  /\ failTimes' = sched.failTimes
         /\ failCosts' = sched.failCosts
         /\ rng' = sched.rng
  /\ interventions' = Interventions(params.lifespanYears)
  /\ i' = 0
  /\ c' = 1
  /\ cost' = <<>>
  /\ pc' = "cost"
  /\ UNCHANGED <<params, riskFailTimes, risk, currentLof, lastFailureTime,
                 failureIndex, result, calls, first>>

\* one iteration of the sample loop of generateCostCurves
CostSample ==
  /\ pc = "cost"
  /\ i < params.points
  /\ NCycles(params.lifespanYears, params.cycleLengthYears) # Inf(1)
  /\ cost' = Append(cost, CostSampleOf(params, failTimes, failCosts, interventions, i))
  /\ i' = i + 1
  /\ UNCHANGED <<pc, params, rng, failTimes, failCosts, interventions, riskFailTimes,
                 c, risk, currentLof, lastFailureTime, failureIndex, result, calls,
                 first>>

\* one iteration of the cycle loop when nCycles is Infinity: c <= nCycles stays true
CostCycleSpin ==
  /\ pc = "cost"
  /\ i < params.points
  /\ NCycles(params.lifespanYears, params.cycleLengthYears) = Inf(1)
  /\ c < MaxSpin
  /\ c' = c + 1
  /\ UNCHANGED <<pc, params, rng, failTimes, failCosts, interventions, riskFailTimes,
                 i, cost, risk, currentLof, lastFailureTime, failureIndex, result,
                 calls, first>>

\* generateCostCurves returns; generateRiskCurves up to its sample loop
RiskInit ==
  /\ pc = "cost"
  /\ ~(i < params.points)
  /\ LET sched == RiskFailures(0, mulberry32(42), <<>>, params.lifespanYears)
     IN  /\ riskFailTimes' = SortAscending(sched.failTimes)
         /\ rng' = sched.rng
  /\ currentLof' = RMul(params.minLof, Q(3, 2))
  /\ lastFailureTime' = R(0)
  /\ failureIndex' = 0
  /\ i' = 0
  /\ risk' = <<>>
  /\ pc' = "risk"
  /\ UNCHANGED <<params, failTimes, failCosts, interventions, c, cost, result, calls,
                 first>>

\* one iteration of the sample loop of generateRiskCurves
RiskSample ==
  /\ pc = "risk"
  /\ i < params.points
  /\ LET step == RiskSampleOf(params, riskFailTimes, i, currentLof, lastFailureTime,
                              failureIndex)
     IN  /\ risk' = Append(risk, step.point)
         /\ currentLof' = step.currentLof
         /\ lastFailureTime' = step.lastFailureTime
         /\ failureIndex' = step.failureIndex
  /\ i' = i + 1
  /\ UNCHANGED <<pc, params, rng, failTimes, failCosts, interventions, riskFailTimes,
                 c, cost, result, calls, first>>

\* generateRiskCurves returns; the summaries; the record is returned, or
\* calculateTotalCosts reads a field of undefined and the TypeError reaches the caller
Return ==
  /\ pc = "risk"
  /\ ~(i < params.points)
  /\ LET outcome ==
           IF Len(cost) = 0
           THEN [kind |-> "TypeError"]
           ELSE [kind |-> "Curves", value |-> Curves(params, cost, risk)]
     IN  /\ result' = outcome
         /\ pc' = IF outcome.kind = "Curves" THEN "returned" ELSE "threw"
         /\ first' = IF \E e \in first : e.params = params
                     THEN first
                     ELSE first \cup {[params |-> params, result |-> outcome, call |-> calls]}
  /\ UNCHANGED <<params, rng, failTimes, failCosts, interventions, riskFailTimes, i,
                 c, cost, risk, currentLof, lastFailureTime, failureIndex, calls>>

Next == Call \/ CostInit \/ CostSample \/ CostCycleSpin \/ RiskInit \/ RiskSample \/ Return

Spec == Init /\ [][Next]_vars

(***************************************************************************)
(* Repeated calls: a caller that calls again once the last call has ended. *)
(***************************************************************************)
RepeatParams ==
  [lifespanYears : {R(MaxLifespan)}, replacementCost : {R(1)}, riskAlpha : {R(6)},
   minLof : {Q(1, 20)}, cycleLengthYears : {R(0), R(1)}, threshold : {Q(81, 1000)},
   points : {0, 2, 3}]

CallAgain == calls < MaxCalls /\ \E P \in RepeatParams : Enter(P)

NextRepeat ==
  CallAgain \/ CostInit \/ CostSample \/ CostCycleSpin \/ RiskInit \/ RiskSample \/ Return

SpecRepeat == Init /\ [][NextRepeat]_vars

(***************************************************************************)
(* The cost generator for any draws: the values rng() returns are chosen   *)
(* freely in [0, 1) instead of being those of the seed 42.                 *)
(***************************************************************************)
\* values of rng() for the offsets, and for the repair fractions
Draws == {R(0), Q(1, 2), Q(15, 16)}

RepairDraws == {R(0), Q(1, 2)}

\* the failure loop of generateCostCurves, rng() returning u[k] and then v[k]
\* for failure k
CostFailuresDrawn(u, v, lifespan, replacementCost) ==
  [failTimes |-> [k \in 1..maxFailures |-> RMul(FailurePosition(k - 1, u[k]), lifespan)],
   failCosts |-> [k \in 1..maxFailures |->
                    RMul(RAdd(Q(3, 10), RMul(v[k], Q(2, 10))), replacementCost)]]

DrawnParams ==
  [lifespanYears : {R(n) : n \in 1..MaxLifespan}, replacementCost : {R(1)},
   riskAlpha : {R(1)}, minLof : {Q(1, 20)}, cycleLengthYears : {R(1)},
   threshold : {Q(2, 5)}, points : {3, MaxPoints}]

CallDrawn == calls = 0 /\ \E P \in DrawnParams : Enter(P)

\* generateCostCurves up to its sample loop
CostInitDrawn ==
  /\ pc = "costInit"
  /\ \E u \in [1..maxFailures -> Draws], v \in [1..maxFailures -> RepairDraws] :
       LET sched == CostFailuresDrawn(u, v, params.lifespanYears, params.replacementCost)
       IN  /\ failTimes' = sched.failTimes
           /\ failCosts' = sched.failCosts
  /\ interventions' = Interventions(params.lifespanYears)
  /\ i' = 0
  /\ c' = 1
  /\ cost' = <<>>
  /\ pc' = "cost"
  /\ UNCHANGED <<params, rng, riskFailTimes, risk, currentLof, lastFailureTime,
                 failureIndex, result, calls, first>>

NextDrawn == CallDrawn \/ CostInitDrawn \/ CostSample

SpecDrawn == Init /\ [][NextDrawn]_vars

(***************************************************************************)
(* Properties.                                                             *)
(***************************************************************************)
\* a call has ended: its record was returned or its error reached the caller
Ended == pc \in {"returned", "threw"}

\* the parameter domain the data model documents
Documented(P) ==
  /\ RGt(P.lifespanYears, R(0))
  /\ RGt(P.replacementCost, R(0))
  /\ RGt(P.riskAlpha, R(0))
  /\ RGe(P.minLof, R(0)) /\ RLt(P.minLof, R(1))
  /\ RGt(P.cycleLengthYears, R(0))
  /\ RGe(P.threshold, R(0)) /\ RLe(P.threshold, R(1))
  /\ P.points >= 2

\* C1: the five Fix-on-Fail failure times of the risk generator are, index by
\* index, the five failure times of the cost generator (checked where the
\* parameters are in the documented domain).
C1_SameFailureTimes ==
  (pc \in {"risk", "returned"} /\ Documented(params)) =>
    /\ Len(riskFailTimes) = Len(failTimes)
    /\ \A k \in 1..Len(failTimes) : riskFailTimes[k] = failTimes[k]

\* C2: whatever calls were made before, a call that ends gives what the first
\* call with the same parameter record gave (curves, totals, averages, threshold).
C2_SameAsFirstCall ==
  Ended => \A e \in first : e.params = params => e.result = result

\* the third call has returned, with the parameters of the first call, after a
\* second call with other parameters
C2_Witness ==
  /\ pc = "returned"
  /\ calls = 3
  /\ Cardinality(first) = 2
  /\ \E e \in first : e.params = params /\ e.call = 1

\* C3: with points < 2 the call computes no sample (no division by points - 1),
\* returns no record and ends with an invalid-parameter error.
C3_FailsFast ==
  (pc # "idle" /\ params.points < 2) =>
    /\ cost = <<>>
    /\ risk = <<>>
    /\ pc # "returned"
    /\ (pc = "threw" => result.kind = "InvalidParameter")

\* C4: with lifespan <= 0 or cycle length <= 0 the call ends with an
\* invalid-parameter error.
C4_InvalidParameterError ==
  (/\ Ended
   /\ params.points >= 2
   /\ (RLe(params.lifespanYears, R(0)) \/ RLe(params.cycleLengthYears, R(0))))
  => (pc = "threw" /\ result.kind = "InvalidParameter")

\* a curve of n points from normalized time 0 to 1, absolute time strictly increasing
SpansLifespan(curve, n) ==
  /\ Len(curve) = n
  /\ curve[1].x = R(0)
  /\ curve[n].x = R(1)
  /\ \A k \in 1..(n - 1) : RLt(curve[k].t, curve[k + 1].t)

\* C5: with points >= 2 and lifespan > 0, the cost curve and the risk curve have
\* exactly points points, from normalized time 0 to normalized time 1, with
\* strictly increasing absolute time.
C5_CurveShape ==
  (pc # "idle" /\ params.points >= 2 /\ RGt(params.lifespanYears, R(0))) =>
    /\ pc \in {"risk", "returned"} => SpansLifespan(cost, params.points)
    /\ pc = "returned" =>
         /\ SpansLifespan(risk, params.points)
         /\ SpansLifespan(result.value.cost, params.points)
         /\ SpansLifespan(result.value.risk, params.points)

C5_Witness ==
  pc = "returned" /\ params.points >= 3 /\ RGt(params.lifespanYears, R(0))

NonNegative(curve) ==
  \A k \in 1..Len(curve) : \A s \in StrategyKey : RGe(curve[k][s], R(0))

\* C6: in the documented parameter domain every cost value and every risk value
\* of the four strategies is >= 0 at every sample.
C6_NonNegative ==
  (pc # "idle" /\ Documented(params)) => NonNegative(cost) /\ NonNegative(risk)

\* sample k of the cost curve has t >= 0.9 * lifespan
AtOrPastNinety(k) == RGe(cost[k].t, RMul(Q(9, 10), params.lifespanYears))

\* sample k is the first with t >= 0.9 * lifespan and has a sample before it
FirstPastNinety(k) ==
  k >= 2 /\ AtOrPastNinety(k) /\ \A j \in 1..(k - 1) : ~AtOrPastNinety(j)

\* C7 as stated: at the first sample with t >= 0.9 * lifespan the No-Fix cost
\* exceeds the preceding sample's by exactly replacementCost.
C7_JumpIsReplacementCost ==
  \A k \in 1..Len(cost) :
    FirstPastNinety(k) =>
      RSub(cost[k].noFix, cost[k - 1].noFix) = params.replacementCost

\* C7 as amended: the No-Fix cost of a sample is the drift
\* 0.05 * replacementCost * (t / lifespan) plus replacementCost exactly when
\* t >= 0.9 * lifespan; at the first such sample it exceeds the preceding sample's
\* by replacementCost plus one step of drift, 0.05 * replacementCost / (points - 1).
C7_NoFixStep ==
  \A k \in 1..Len(cost) :
    /\ cost[k].noFix =
         RAdd(RMul(RMul(Q(5, 100), params.replacementCost),
                   RDiv(cost[k].t, params.lifespanYears)),
              IF AtOrPastNinety(k) THEN params.replacementCost ELSE R(0))
    /\ FirstPastNinety(k) =>
         RSub(cost[k].noFix, cost[k - 1].noFix) =
           RAdd(params.replacementCost,
                RDiv(RMul(Q(5, 100), params.replacementCost), R(params.points - 1)))

\* a sample lies exactly at 0.9 * lifespan and is the first to carry the step
C7_Witness ==
  \E k \in 1..Len(cost) :
    /\ FirstPastNinety(k)
    /\ REq(cost[k].t, RMul(Q(9, 10), params.lifespanYears))

\* C8: in a returned record totalCosts and averageRisk have the four strategies
\* and totalCosts[s] is the value of s in the last point of the cost curve.
C8_TotalsAreLastPoint ==
  pc = "returned" =>
    LET v == result.value
    IN  /\ DOMAIN v.totalCosts = StrategyKey
        /\ DOMAIN v.averageRisk = StrategyKey
        /\ \A s \in StrategyKey : v.totalCosts[s] = v.cost[Len(v.cost)][s]

C8_Witness ==
  /\ pc = "returned"
  /\ Len(result.value.cost) >= 3
  /\ \A s \in StrategyKey :
       result.value.totalCosts[s] # result.value.cost[1][s]

\* the risk generator has advanced its index at a sample
Advanced == pc \in {"risk", "returned"} /\ Len(risk) >= 1

\* the time of that sample
SampleTime == risk[Len(risk)].t

\* the largest element of a set of numbers, 0 when it is empty
Largest(S) == IF S = {} THEN R(0) ELSE CHOOSE v \in S : \A w \in S : RLe(w, v)

ResetRisk == RMul(RMul(params.minLof, Q(3, 2)), params.replacementCost)

\* C10: the recorded Fix-on-Risk value of a sample is the running likelihood
\* after the comparison and the reset: it is never a value >= threshold other
\* than floor * 1.5 (in currency: likelihood * consequence).
C10_RecordedAfterReset ==
  /\ \A k \in 1..Len(risk) :
       RGe(risk[k].fixOnRisk, RMul(params.threshold, params.replacementCost)) =>
         risk[k].fixOnRisk = ResetRisk
  /\ Advanced =>
       /\ risk[Len(risk)].fixOnRisk = RMul(currentLof, params.replacementCost)
       /\ RGe(currentLof, params.threshold) => currentLof = RMul(params.minLof, Q(3, 2))

\* a sample whose increment reached the threshold and that recorded the reset
\* value, after a sample that recorded an incremented value below the threshold
C10_Witness ==
  \E k \in 2..Len(risk) :
    /\ risk[k].fixOnRisk = ResetRisk
    /\ risk[k - 1].fixOnRisk # ResetRisk
    /\ RLt(risk[k - 1].fixOnRisk, RMul(params.threshold, params.replacementCost))

\* the number of cycle boundaries c * cycleLength, c = 1..floor(lifespan /
\* cycleLength), that are <= t
BoundariesUpTo(t) ==
  LET n == NCycles(params.lifespanYears, params.cycleLengthYears)
  IN  IF IsNum(n)
      THEN Cardinality({b \in 1..n[1] : RLe(RMul(R(b), params.cycleLengthYears), t)})
      ELSE 0

\* (0.02 * replacementCost) * (t / lifespan) + 0.15 * replacementCost * boundaries
FixInPlanClosedForm(t, boundaries) ==
  RAdd(RMul(RMul(Q(2, 100), params.replacementCost), RDiv(t, params.lifespanYears)),
       RMul(RMul(Q(15, 100), params.replacementCost), R(boundaries)))

\* C11: the Fix-in-Plan cost of a sample with time t is the linear baseline
\* (0.02 * replacementCost) * (t / lifespan) plus 0.15 * replacementCost for
\* each cycle boundary <= t; and, for parameters in the documented domain, the
\* Fix-in-Plan total is 0.02 * replacementCost + 0.15 * replacementCost *
\* floor(lifespan / cycleLength).
C11_FixInPlanClosedForm ==
  /\ \A k \in 1..Len(cost) :
       cost[k].fixInPlan = FixInPlanClosedForm(cost[k].t, BoundariesUpTo(cost[k].t))
  /\ (pc = "returned" /\ Documented(params)) =>
       result.value.totalCosts.fixInPlan =
         FixInPlanClosedForm(params.lifespanYears,
                             NCycles(params.lifespanYears, params.cycleLengthYears)[1])

\* a returned record of two cycles, with a sample exactly on the first cycle
\* boundary that carries one step cost and an earlier sample that carries none
C11_Witness ==
  /\ pc = "returned"
  /\ Documented(params)
  /\ NCycles(params.lifespanYears, params.cycleLengthYears) = R(2)
  /\ \E k \in 2..Len(cost) :
       /\ REq(cost[k].t, params.cycleLengthYears)
       /\ BoundariesUpTo(cost[k].t) = 1
       /\ BoundariesUpTo(cost[k - 1].t) = 0
       /\ RGt(cost[k - 1].fixInPlan, R(0))

\* a schedule is non-decreasing in the failure index
NonDecreasing(times) ==
  \A j \in 1..(Len(times) - 1) : RLe(times[j], times[j + 1])

\* an incremental accumulator at a sample with time t: from the index idx it
\* walks the schedule in index order while the failure time is <= t and adds
\* the repair costs it passes to sum
RECURSIVE WalkSchedule(_, _, _, _, _)
WalkSchedule(times, costs, t, idx, sum) ==
  IF idx < Len(times) /\ RGe(t, times[idx + 1])
  THEN WalkSchedule(times, costs, t, idx + 1, RAdd(sum, costs[idx + 1]))
  ELSE [idx |-> idx, sum |-> sum]

\* the accumulator after the samples 1..k of the cost curve
RECURSIVE IncrementalAt(_)
IncrementalAt(k) ==
  IF k = 0 THEN [idx |-> 0, sum |-> R(0)]
  ELSE LET before == IncrementalAt(k - 1)
       IN  WalkSchedule(failTimes, failCosts, cost[k].t, before.idx, before.sum)

\* (0.01 * replacementCost * t) / lifespan
BaselineFail(t) ==
  RDiv(RMul(RMul(Q(1, 100), params.replacementCost), t), params.lifespanYears)

\* C12: for any draws in [0, 1) and a lifespan > 0 the failure schedule is
\* non-decreasing in the failure index, and the Fix-on-Fail cost of every
\* sample, which the code computes by scanning the whole schedule, is the
\* baseline plus the sum of an incremental accumulator that walks the
\* schedule in index order as the samples advance.
C12_ScanIsIncremental ==
  RGt(params.lifespanYears, R(0)) =>
    /\ NonDecreasing(failTimes)
    /\ \A k \in 1..Len(cost) :
         cost[k].fixOnFail = RAdd(BaselineFail(cost[k].t), IncrementalAt(k).sum)

\* a finished cost curve over a schedule that is not the one of the seed 42,
\* whose last position is clamped to 1, with unequal repair costs, where the
\* accumulator passed two failures or more at one sample and all of them at the end
C12_Witness ==
  /\ pc = "cost"
  /\ Len(cost) = params.points
  /\ Len(failTimes) = maxFailures
  /\ failTimes # CostFailures(0, mulberry32(42), <<>>, <<>>, params.lifespanYears,
                              params.replacementCost).failTimes
  /\ failTimes[maxFailures] = params.lifespanYears
  /\ failCosts[1] # failCosts[2]
  /\ IncrementalAt(Len(cost)).idx = maxFailures
  /\ \E k \in 1..Len(cost) : IncrementalAt(k).idx >= IncrementalAt(k - 1).idx + 2

\* nextFailureTime of the sample recorded last: the failure time at the index,
\* the lifespan when none remains
NextFailureTime ==
  IF failureIndex < Len(riskFailTimes)
  THEN riskFailTimes[failureIndex + 1]
  ELSE params.lifespanYears

\* C13: with points >= 2 and lifespan > 0, every sample of the risk curve takes
\* the branch t < nextFailure, where its Fix-on-Fail likelihood is at most
\* 0.999, or the branch t = nextFailure, where it is exactly 1.0 (so the
\* doubled baseline set while the index advances is never what is recorded);
\* and the last sample (x = 1, t = lifespan) takes the equality branch: its
\* Fix-on-Fail risk is the consequence of failure.
C13_LastSampleIsCertain ==
  (Advanced /\ params.points >= 2 /\ RGt(params.lifespanYears, R(0))) =>
    LET recorded == risk[Len(risk)].fixOnFail
        cof == params.replacementCost
    IN  /\ RLt(SampleTime, NextFailureTime) \/ REq(SampleTime, NextFailureTime)
        /\ RLt(SampleTime, NextFailureTime) => RLe(recorded, RMul(Q(999, 1000), cof))
        /\ REq(SampleTime, NextFailureTime) => recorded = cof
        /\ Len(risk) = params.points =>
             /\ risk[Len(risk)].x = R(1)
             /\ SampleTime = params.lifespanYears
             /\ REq(SampleTime, NextFailureTime)
             /\ recorded = cof

\* a finished risk curve whose last sample, past all five failures, has the
\* consequence of failure as its Fix-on-Fail risk, after a sample past a
\* failure that recorded less
C13_Witness ==
  /\ pc = "returned"
  /\ params.points = MaxPoints
  /\ RGt(params.lifespanYears, R(0))
  /\ failureIndex = maxFailures
  /\ risk[Len(risk)].fixOnFail = params.replacementCost
  /\ \E k \in 2..(Len(risk) - 1) :
       /\ RGt(risk[k].t, riskFailTimes[1])
       /\ RLt(risk[k].fixOnFail, params.replacementCost)

\* C14: with replacement cost > 0, lifespan > 0, cycle length > 0 and
\* points >= 2, the cost of each strategy does not decrease from a sample to
\* the next, and each entry of totalCosts is the maximum of its strategy's
\* cost curve.
C14_CostsNeverDecrease ==
  (/\ RGt(params.replacementCost, R(0))
   /\ RGt(params.lifespanYears, R(0))
   /\ RGt(params.cycleLengthYears, R(0))
   /\ params.points >= 2) =>
    /\ \A k \in 2..Len(cost) : \A s \in StrategyKey : RLe(cost[k - 1][s], cost[k][s])
    /\ pc = "returned" =>
         \A s \in StrategyKey :
           /\ \A k \in 1..Len(cost) : RLe(cost[k][s], result.value.totalCosts[s])
           /\ \E k \in 1..Len(cost) : cost[k][s] = result.value.totalCosts[s]

\* a returned record in that domain where every strategy's cost takes a step
\* (a replacement, a cycle, a repair, an intervention) between two samples
C14_Witness ==
  /\ pc = "returned"
  /\ Documented(params)
  /\ params.points = MaxPoints
  /\ \A s \in StrategyKey :
       \E k \in 2..Len(cost) :
         RGt(cost[k][s], RAdd(cost[k - 1][s], RMul(Q(1, 10), params.replacementCost)))

=============================================================================
